---- MODULE Spec2Model ----
(***************************************************************************)
(* LinkedIt job bot: the job aggregation engine of src/bot.py (search     *)
(* with cache, scatter-gather over the thread pool, sessions and paging)  *)
(* and the send ledger of src/database.py.                                 *)
(*                                                                         *)
(* Strings that the code transforms (search terms) are sequences of        *)
(* one-character strings; opaque tokens (country codes, urls) are values.  *)
(* Time is time.monotonic() in whole seconds.                              *)
(***************************************************************************)
EXTENDS Integers, Sequences, FiniteSets, TLC

VARIABLES
    cachetools,   \* whether `from cachetools import TTLCache` succeeded (bot.py:42-48)
    now,          \* the clock, seconds
    job_cache,    \* bot.py:80, entries in the order the cache keeps them
    tasks,        \* executor (bot.py:83): every submitted _search_single_country call
    searches,     \* every perform_search call so far, in call order
    user_data,    \* context.user_data of each user: search_id -> stored results
    reply,        \* what the last handler sent to its chat
    ticks,        \* how often the clock has advanced
    users,        \* database.py: the users table, user_id -> row
    sent_jobs,    \* database.py: the sent_jobs table, rows in insertion order
    favorites,    \* database.py: the favorites table and its AUTOINCREMENT counter
    alerts,       \* database.py: the alerts table and its AUTOINCREMENT counter
    db_ret        \* the last database call and what it gave back

searchVars == <<cachetools, now, job_cache, tasks, searches, user_data, reply, ticks>>
dbVars == <<users, sent_jobs, favorites, alerts, db_ret>>
vars == <<searchVars, dbVars>>

-----------------------------------------------------------------------------
(* Program constants                                                       *)

maxsize == 200
ttl == 1800
max_workers == 4
RESULTS_PER_PAGE == 5
MAX_RESULTS == 15
SEARCH_TIMEOUT == 60

\* COUNTRIES.keys() in dict order, and the "name" each posting is stamped with
COUNTRIES == <<"qa", "ae", "sa", "bh">>
CountryName(cc) ==
    CASE cc = "qa" -> "Qatar"
      [] cc = "ae" -> "United Arab Emirates"
      [] cc = "sa" -> "Saudi Arabia"
      [] cc = "bh" -> "Bahrain"

\* cc is a key of COUNTRIES: COUNTRIES[cc] does not raise KeyError
Supported(cc) == \E i \in 1..Len(COUNTRIES) : COUNTRIES[i] = cc

-----------------------------------------------------------------------------
(* Bounds of the model                                                     *)

MaxSearches == 2      \* perform_search calls in one behaviour
MaxRows == 2          \* rows one scrape_jobs call returns, at most
MaxTicks == 2         \* clock advances in one behaviour
NumUsers == 2         \* chats
NumIds == 2           \* distinct values the 8-digit search_id takes
MaxPage == 3          \* largest page index a page_ callback carries

Users == 1..NumUsers

\* What users type (bot.py:431) and the selector their menu click stored (bot.py:397)
SearchTerms == { <<"a">>, <<" ", "A">> }
Selectors == {"qa", "all"}

-----------------------------------------------------------------------------
(* str.lower() and str.strip() on the characters the terms are made of    *)

LowerChar(c) == CASE c = "A" -> "a" [] c = "B" -> "b" [] OTHER -> c
lower(s) == [i \in 1..Len(s) |-> LowerChar(s[i])]

RECURSIVE lstrip(_)
lstrip(s) == IF s # <<>> /\ Head(s) = " " THEN lstrip(Tail(s)) ELSE s
RECURSIVE rstrip(_)
rstrip(s) == IF s # <<>> /\ s[Len(s)] = " " THEN rstrip(SubSeq(s, 1, Len(s) - 1)) ELSE s
strip(s) == rstrip(lstrip(s))

\* The key without strip(): f"{search_term.lower()}:{country_code}"
cache_key_unstripped(search_term, country_code) == <<lower(search_term), country_code>>

\* f"{search_term.lower().strip()}:{country_code}"; no country code holds a
\* colon, so the string determines the pair and the pair stands for it
cache_key(search_term, country_code) == <<strip(lower(search_term)), country_code>>

-----------------------------------------------------------------------------
(* Sequence helpers                                                        *)

RECURSIVE Concat(_)
Concat(ss) == IF ss = <<>> THEN <<>> ELSE Head(ss) \o Concat(Tail(ss))

-----------------------------------------------------------------------------
(* job_cache: cachetools.TTLCache, or the dict fallback of bot.py:45-48.   *)
(* An entry is [key, value, created]; cachetools keeps created + ttl as    *)
(* the link's expiry, the fallback keeps no time at all.  The sequence is  *)
(* the order of cachetools' link table (least recently used first), resp.  *)
(* the dict's insertion order.                                             *)

Expired(e, t) == ~(t < e.created + ttl)

HasKey(cache, key) == \E i \in 1..Len(cache) : cache[i].key = key
EntryOf(cache, key) == cache[CHOOSE i \in 1..Len(cache) : cache[i].key = key]

\* A membership test by truth value (`if job_cache.get(cache_key):`), which
\* takes a cached empty result for a miss
CacheContainsTruthy(cache, key, t) ==
    /\ HasKey(cache, key)
    /\ cachetools => ~Expired(EntryOf(cache, key), t)
    /\ EntryOf(cache, key).value # <<>>

\* `cache_key in job_cache`
CacheContains(cache, key, t) ==
    IF cachetools
    THEN HasKey(cache, key) /\ ~Expired(EntryOf(cache, key), t)
    ELSE HasKey(cache, key)

\* `job_cache[cache_key]` after the membership test: the value, and the cache
\* after the read (cachetools moves the entry's link to the end)
CacheRead(cache, key) ==
    IF cachetools
    THEN SelectSeq(cache, LAMBDA e : e.key # key) \o <<EntryOf(cache, key)>>
    ELSE cache

\* A store guarded by truth value (`if all_jobs: job_cache[cache_key] = all_jobs`)
CacheStoreTruthy(cache, key, value, t) ==
    IF value = <<>>
    THEN cache
    ELSE SelectSeq(cache, LAMBDA e : e.key # key)
            \o <<[key |-> key, value |-> value, created |-> t]>>

\* A store that keeps what is there (`job_cache.setdefault(cache_key, all_jobs)`)
CacheStoreIfAbsent(cache, key, value, t) ==
    IF HasKey(cache, key)
    THEN cache
    ELSE cache \o <<[key |-> key, value |-> value, created |-> t]>>

\* `job_cache[cache_key] = value`
CacheStore(cache, key, value, t) ==
    IF cachetools
    THEN LET live == SelectSeq(cache, LAMBDA e : ~Expired(e, t))     \* expire(time)
             kept == IF HasKey(live, key)
                     THEN SelectSeq(live, LAMBDA e : e.key # key)
                     ELSE IF Len(live) + 1 > maxsize
                          THEN Tail(live)                              \* popitem()
                          ELSE live
         IN  kept \o <<[key |-> key, value |-> value, created |-> t]>>
    ELSE IF HasKey(cache, key)
         THEN [i \in 1..Len(cache) |->
                 IF cache[i].key = key
                 THEN [key |-> key, value |-> value, created |-> t]
                 ELSE cache[i]]
         ELSE cache \o <<[key |-> key, value |-> value, created |-> t]>>

-----------------------------------------------------------------------------
(* scrape_jobs and the fetch worker                                        *)

\* What one scrape_jobs call can do when it returns: a DataFrame of n rows,
\* an empty DataFrame, None, or an exception
Upstream ==
    {[kind |-> "rows", n |-> n] : n \in {1, MaxRows}}
    \cup {[kind |-> k, n |-> 0] : k \in {"empty", "none", "raise"}}

\* The rows of the DataFrame, before the worker touches them
UpstreamRows(cc, n) == [i \in 1..n |-> [job_url |-> <<cc, i>>]]

\* The worker without its try/except: the exception reaches the future
search_single_country_nocatch(out, cc) ==
    IF ~Supported(cc)
    THEN [tag |-> "exc", val |-> <<>>]
    ELSE IF out.kind = "rows"
    THEN [tag |-> "list",
          val |-> [i \in 1..out.n |->
                     [job_url |-> <<cc, i>>, country_name |-> CountryName(cc)]]]
    ELSE IF out.kind = "raise"
         THEN [tag |-> "exc", val |-> <<>>]
         ELSE [tag |-> "list", val |-> <<>>]

\* The worker without the stamping loop: the rows as upstream gave them,
\* which send_page then labels with its default
search_single_country_unstamped(out, cc) ==
    IF ~Supported(cc)
    THEN [tag |-> "list", val |-> <<>>]
    ELSE IF out.kind = "rows"
    THEN [tag |-> "list",
          val |-> [i \in 1..out.n |->
                     [job_url |-> UpstreamRows(cc, out.n)[i].job_url,
                      country_name |-> "Gulf"]]]
    ELSE [tag |-> "list", val |-> <<>>]

\* _search_single_country (bot.py:226-247): the value the call returns to
\* its future; every row is stamped with the country's name.  For a cc that
\* is no key of COUNTRIES the arguments of scrape_jobs raise KeyError inside
\* the try, before any call upstream
search_single_country(out, cc) ==
    IF ~Supported(cc)
    THEN [tag |-> "list", val |-> <<>>]
    ELSE IF out.kind = "rows"
    THEN [tag |-> "list",
          val |-> [i \in 1..out.n |->
                     [job_url |-> UpstreamRows(cc, out.n)[i].job_url,
                      country_name |-> CountryName(cc)]]]
    ELSE [tag |-> "list", val |-> <<>>]      \* except branch, or fall through

\* What the worker met: upstream's answer, or the KeyError of its own lookup
Met(out, cc) == IF Supported(cc) THEN out ELSE [kind |-> "raise", n |-> 0]

-----------------------------------------------------------------------------
(* executor = ThreadPoolExecutor(max_workers=4): a task is                *)
(* [sid, cc, st, out, result], st one of queued, running, done             *)

NoOut == [kind |-> "pending", n |-> 0]
NoResult == [tag |-> "none", val |-> <<>>]

Running(ts) == {i \in 1..Len(ts) : ts[i].st = "running"}
Queued(ts) == {i \in 1..Len(ts) : ts[i].st = "queued"}
Min(S) == CHOOSE x \in S : \A y \in S : x <= y

\* A pool that starts a thread for every work item
ScheduleUnbounded(ts) == [i \in 1..Len(ts) |->
    IF ts[i].st = "queued" THEN [ts[i] EXCEPT !.st = "running"] ELSE ts[i]]

\* Idle worker threads take queued work items in submission order
RECURSIVE Schedule(_)
Schedule(ts) ==
    IF Cardinality(Running(ts)) < max_workers /\ Queued(ts) # {}
    THEN Schedule([ts EXCEPT ![Min(Queued(ts))].st = "running"])
    ELSE ts

\* loop.run_in_executor(executor, _search_single_country, term, cc) for each cc
Submit(ts, sid, ccs) ==
    Schedule(ts \o [i \in 1..Len(ccs) |->
        [sid |-> sid, cc |-> ccs[i], st |-> "queued", out |-> NoOut, result |-> NoResult]])

TasksOf(ts, sid) == SelectSeq(ts, LAMBDA t : t.sid = sid)

\* A release that leaves queued work items in the queue (no cancellation
\* reaches the executor's futures)
ReleaseTasksKeepQueued(ts, sid) ==
    SelectSeq(ts, LAMBDA t : ~(t.sid = sid /\ t.st = "done"))

\* The futures of a search that ended are released: its finished work items
\* are forgotten.  Cancelling the awaited futures (wait_for on timeout) takes
\* a work item that is still queued out of the queue; a running call cannot
\* be interrupted and keeps its thread.
ReleaseTasks(ts, sid) ==
    SelectSeq(ts, LAMBDA t : ~(t.sid = sid /\ t.st \in {"done", "queued"}))

-----------------------------------------------------------------------------
(* Paging and delivery                                                     *)

SearchIds == 1..NumIds
Pages == 0..MaxPage

Take(seq, n) == IF Len(seq) <= n THEN seq ELSE SubSeq(seq, 1, n)

\* send_page with the next button decided by `end_idx <= len(results)`
send_page_inclusive(results, page) ==
    LET start_idx == page * RESULTS_PER_PAGE
        end_idx == IF start_idx + RESULTS_PER_PAGE < Len(results)
                   THEN start_idx + RESULTS_PER_PAGE ELSE Len(results)
        total_pages == (Len(results) + RESULTS_PER_PAGE - 1) \div RESULTS_PER_PAGE
        page_results == IF start_idx < end_idx
                        THEN SubSeq(results, start_idx + 1, end_idx) ELSE <<>>
    IN  [jobs |-> page_results,
         nav |-> IF total_pages > 1
                 THEN <<[prev |-> page > 0,
                         next |-> end_idx <= Len(results),
                         label |-> <<page + 1, total_pages>>,
                         shown |-> <<start_idx + 1, end_idx, Len(results)>>]>>
                 ELSE <<>>]

\* send_page that shows the last page for any page index beyond it
send_page_clamped(results, page) ==
    LET total_pages == (Len(results) + RESULTS_PER_PAGE - 1) \div RESULTS_PER_PAGE
        pg == IF page < total_pages THEN page ELSE total_pages - 1
        start_idx == pg * RESULTS_PER_PAGE
        end_idx == IF start_idx + RESULTS_PER_PAGE < Len(results)
                   THEN start_idx + RESULTS_PER_PAGE ELSE Len(results)
    IN  [jobs |-> SubSeq(results, start_idx + 1, end_idx),
         nav |-> IF total_pages > 1
                 THEN <<[prev |-> pg > 0,
                         next |-> end_idx < Len(results),
                         label |-> <<pg + 1, total_pages>>,
                         shown |-> <<start_idx + 1, end_idx, Len(results)>>]>>
                 ELSE <<>>]

\* send_page (bot.py:440-477): the postings sent, and the navigation message
\* (sent only when there is more than one page)
send_page(results, page) ==
    LET start_idx == page * RESULTS_PER_PAGE
        end_idx == IF start_idx + RESULTS_PER_PAGE < Len(results)
                   THEN start_idx + RESULTS_PER_PAGE ELSE Len(results)
        total_pages == (Len(results) + RESULTS_PER_PAGE - 1) \div RESULTS_PER_PAGE
        page_results == IF start_idx < end_idx
                        THEN SubSeq(results, start_idx + 1, end_idx) ELSE <<>>
    IN  [jobs |-> page_results,
         nav |-> IF total_pages > 1
                 THEN <<[prev |-> page > 0,
                         next |-> end_idx < Len(results),
                         label |-> <<page + 1, total_pages>>,
                         shown |-> <<start_idx + 1, end_idx, Len(results)>>]>>
                 ELSE <<>>]

\* A reply is what one handler run sent: a notice, postings, a navigation message
NoReply == [handler |-> "none", user |-> 0, data |-> <<>>, notice |-> "none",
            count |-> 0, jobs |-> <<>>, nav |-> <<>>]

\* perform_search announcing len(results) instead of len(results[:MAX_RESULTS])
AnnounceFullCount(u, results) ==
    IF results = <<>>
    THEN [NoReply EXCEPT !.handler = "search", !.user = u, !.notice = "notfound"]
    ELSE LET pg == send_page(Take(results, MAX_RESULTS), 0)
         IN  [handler |-> "search", user |-> u, data |-> <<>>, notice |-> "found",
              count |-> Len(results), jobs |-> pg.jobs, nav |-> pg.nav]

\* perform_search after search_jobs_logic returned (bot.py:497-516)
Announce(u, results) ==
    IF results = <<>>
    THEN [NoReply EXCEPT !.handler = "search", !.user = u, !.notice = "notfound"]
    ELSE LET pg == send_page(Take(results, MAX_RESULTS), 0)
         IN  [handler |-> "search", user |-> u, data |-> <<>>, notice |-> "found",
              count |-> Len(Take(results, MAX_RESULTS)),
              jobs |-> pg.jobs, nav |-> pg.nav]

\* perform_search without its early return for no results
StoreSessionAlways(ud, u, results, id) ==
    [ud EXCEPT ![u] = (id :> Take(results, MAX_RESULTS)) @@ @]

\* context.user_data[f"results_{search_id}"] = results[:MAX_RESULTS], reached
\* only past the `if not results: ... return` of bot.py:497-503
StoreSession(ud, u, results, id) ==
    IF results = <<>>
    THEN ud
    ELSE [ud EXCEPT ![u] = (id :> Take(results, MAX_RESULTS)) @@ @]

-----------------------------------------------------------------------------
(* search_jobs_logic (bot.py:250-296)                                      *)

\* Application.builder().token(BOT_TOKEN).build() (bot.py:539) leaves
\* concurrent_updates off: the dispatcher awaits one handler before it
\* starts the next
concurrent_updates == FALSE

Waiting == {i \in 1..Len(searches) : searches[i].st = "waiting"}
\* wait_for around the gather only: the single-region await has no timer
DeadlineGatherOnly(s) ==
    IF s.cc = "all" THEN s.dispatched + SEARCH_TIMEOUT ELSE s.dispatched + ttl

\* asyncio.wait_for(..., timeout=SEARCH_TIMEOUT), in both branches
Deadline(s) == s.dispatched + SEARCH_TIMEOUT

\* Every search fans out to all regions
RegionsEverywhere(country_code) == COUNTRIES

\* The regions one search dispatches workers for (bot.py:262-267, 287)
Regions(country_code) == IF country_code = "all" THEN COUNTRIES ELSE <<country_code>>

\* The merge that puts each list in front of what it has (all_jobs = result + all_jobs)
GatheredPrepend(country_code, results_lists) ==
    IF country_code = "all"
    THEN [raised |-> FALSE,
          jobs |-> Concat([i \in 1..Len(results_lists) |->
                      LET r == results_lists[Len(results_lists) + 1 - i]
                      IN  IF r.tag = "list" THEN r.val ELSE <<>>])]
    ELSE IF results_lists[1].tag = "list"
         THEN [raised |-> FALSE, jobs |-> results_lists[1].val]
         ELSE [raised |-> TRUE, jobs |-> <<>>]

\* What the awaited future hands back (bot.py:269-292): gather with
\* return_exceptions=True keeps a worker's exception as its result and the
\* loop skips it; the single-region await re-raises it
Gathered(country_code, results_lists) ==
    IF country_code = "all"
    THEN [raised |-> FALSE,
          jobs |-> Concat([i \in 1..Len(results_lists) |->
                      IF results_lists[i].tag = "list"
                      THEN results_lists[i].val ELSE <<>>])]
    ELSE IF results_lists[1].tag = "list"
         THEN [raised |-> FALSE, jobs |-> results_lists[1].val]
         ELSE [raised |-> TRUE, jobs |-> <<>>]

\* except asyncio.TimeoutError (bot.py:273-275, 290-292)
TimedOutJobs(results_lists) == <<>>

NewSearch(u, term, cc) ==
    [user |-> u, term |-> term, cc |-> cc, key |-> cache_key(term, cc),
     st |-> "waiting", hit |-> FALSE, timedout |-> FALSE,
     dispatched |-> now, returned |-> now, result |-> <<>>, outs |-> <<>>]

\* perform_search -> search_jobs_logic, key in the cache
Hit(u, term, cc, id) ==
    LET key == cache_key(term, cc)
        results == EntryOf(job_cache, key).value
    IN  /\ CacheContains(job_cache, key, now)
        /\ results = <<>> => id = 1
        /\ job_cache' = CacheRead(job_cache, key)
        /\ searches' = Append(searches,
              [NewSearch(u, term, cc) EXCEPT !.st = "returned", !.hit = TRUE,
                                             !.result = results])
        /\ user_data' = StoreSession(user_data, u, results, id)
        /\ reply' = Announce(u, results)
        /\ UNCHANGED <<cachetools, now, tasks, ticks>>

\* ... key not in the cache: the workers are submitted and the caller waits
Miss(u, term, cc) ==
    LET key == cache_key(term, cc)
    IN  /\ ~CacheContains(job_cache, key, now)
        /\ tasks' = Submit(tasks, Len(searches) + 1, Regions(cc))
        /\ searches' = Append(searches, NewSearch(u, term, cc))
        /\ reply' = [NoReply EXCEPT !.handler = "search", !.user = u,
                                    !.notice = "searching"]
        /\ UNCHANGED <<cachetools, now, job_cache, user_data, ticks>>

\* handle_message -> perform_search: the dispatcher starts a handler when
\* the one before it has returned
SearchHit(u, term, cc, id) ==
    /\ concurrent_updates \/ Waiting = {}
    /\ Hit(u, term, cc, id)

SearchMiss(u, term, cc) ==
    /\ concurrent_updates \/ Waiting = {}
    /\ Miss(u, term, cc)

\* A worker whose result is stored by a done-callback of its future: the
\* result of a call that returns after its search ended goes into the cache
WorkerReturnLate(i, out) ==
    /\ i \in Running(tasks)
    /\ IF tasks[i].sid \in Waiting
       THEN /\ tasks' = Schedule(
                  [tasks EXCEPT ![i].st = "done", ![i].out = Met(out, tasks[i].cc),
                                ![i].result = search_single_country(out, tasks[i].cc)])
            /\ UNCHANGED job_cache
       ELSE /\ tasks' = Schedule(
                  [j \in 1..(Len(tasks) - 1) |-> IF j < i THEN tasks[j] ELSE tasks[j + 1]])
            /\ job_cache' = CacheStore(job_cache, searches[tasks[i].sid].key,
                                search_single_country(out, tasks[i].cc).val, now)
    /\ UNCHANGED <<cachetools, now, searches, user_data, reply, ticks>>

\* One scrape_jobs call ends, one way or another, and its thread takes the
\* next queued work item.  The result of a call whose search has ended goes
\* to a cancelled future: nothing keeps it.
WorkerReturn(i, out) ==
    /\ i \in Running(tasks)
    /\ tasks' = Schedule(
          IF tasks[i].sid \in Waiting
          THEN [tasks EXCEPT ![i].st = "done", ![i].out = Met(out, tasks[i].cc),
                             ![i].result = search_single_country(out, tasks[i].cc)]
          ELSE [j \in 1..(Len(tasks) - 1) |-> IF j < i THEN tasks[j] ELSE tasks[j + 1]])
    /\ UNCHANGED <<cachetools, now, job_cache, searches, user_data, reply, ticks>>

ResultsLists(sid) ==
    LET rs == TasksOf(tasks, sid) IN [i \in 1..Len(rs) |-> rs[i].result]

\* What each worker of the search met upstream, as its log line or its
\* silence shows (bot.py:246); pending for a worker that has not returned
Outcomes(sid) ==
    LET rs == TasksOf(tasks, sid) IN [i \in 1..Len(rs) |-> rs[i].out]

\* The rest of search_jobs_logic and of perform_search, once the await ends
Finish(sid, got, timedout, id) ==
    LET s == searches[sid]
    IN  /\ tasks' = ReleaseTasks(tasks, sid)
        /\ IF got.raised
           THEN /\ searches' = [searches EXCEPT ![sid].st = "raised",
                                   ![sid].returned = now, ![sid].outs = Outcomes(sid)]
                /\ id = 1
                /\ reply' = NoReply
                /\ UNCHANGED <<job_cache, user_data>>
           ELSE /\ got.jobs = <<>> => id = 1
                /\ job_cache' = CacheStore(job_cache, s.key, got.jobs, now)
                /\ searches' = [searches EXCEPT ![sid].st = "returned",
                                   ![sid].returned = now, ![sid].timedout = timedout,
                                   ![sid].result = got.jobs, ![sid].outs = Outcomes(sid)]
                /\ user_data' = StoreSession(user_data, s.user, got.jobs, id)
                /\ reply' = Announce(s.user, got.jobs)

\* Every worker of the search is done before the deadline fires
GatherDone(sid, id) ==
    /\ sid \in Waiting
    /\ \A i \in 1..Len(tasks) : tasks[i].sid = sid => tasks[i].st = "done"
    /\ Finish(sid, Gathered(searches[sid].cc, ResultsLists(sid)), FALSE, id)
    /\ UNCHANGED <<cachetools, now, ticks>>

\* asyncio.wait_for's timer fires
Timeout(sid, id) ==
    /\ sid \in Waiting
    /\ now >= Deadline(searches[sid])
    /\ Finish(sid, [raised |-> FALSE, jobs |-> TimedOutJobs(ResultsLists(sid))], TRUE, id)
    /\ UNCHANGED <<cachetools, now, ticks>>

\* A page handler that takes the results out of the store
\* (`context.user_data.pop(f"results_{search_id}", [])`)
PageRequestPop(u, id, page) ==
    LET results == IF id \in DOMAIN user_data[u] THEN user_data[u][id] ELSE <<>>
        asked == [NoReply EXCEPT !.handler = "page", !.user = u, !.data = <<id, page>>]
    IN  /\ concurrent_updates \/ Waiting = {}
        /\ reply' = IF results # <<>>
                    THEN LET pg == send_page(results, page)
                         IN  [asked EXCEPT !.jobs = pg.jobs, !.nav = pg.nav]
                    ELSE asked
        /\ user_data' = [user_data EXCEPT ![u] =
              [k \in DOMAIN user_data[u] \ {id} |-> user_data[u][k]]]
        /\ UNCHANGED <<cachetools, now, job_cache, tasks, searches, ticks>>

\* A page request resolved against one store of sessions shared by all users
PageRequestShared(u, id, page) ==
    LET holders == {v \in Users : id \in DOMAIN user_data[v]}
        owner == IF u \in holders THEN u ELSE Min(holders)
        results == IF holders # {} THEN user_data[owner][id] ELSE <<>>
        asked == [NoReply EXCEPT !.handler = "page", !.user = u, !.data = <<id, page>>]
    IN  /\ concurrent_updates \/ Waiting = {}
        /\ reply' = IF results # <<>>
                    THEN LET pg == send_page(results, page)
                         IN  [asked EXCEPT !.jobs = pg.jobs, !.nav = pg.nav]
                    ELSE asked
        /\ UNCHANGED <<cachetools, now, job_cache, tasks, searches, user_data, ticks>>

\* A page request that serves a session only while the cache still holds a
\* live entry with the session's results
PageRequestThroughCache(u, id, page) ==
    LET cached(rs) == \E k \in 1..Len(job_cache) :
                         /\ ~Expired(job_cache[k], now)
                         /\ Len(rs) <= Len(job_cache[k].value)
                         /\ \A n \in 1..Len(rs) : rs[n] = job_cache[k].value[n]
        results == IF id \in DOMAIN user_data[u] /\ cached(user_data[u][id])
                   THEN user_data[u][id] ELSE <<>>
        asked == [NoReply EXCEPT !.handler = "page", !.user = u, !.data = <<id, page>>]
    IN  /\ concurrent_updates \/ Waiting = {}
        /\ reply' = IF results # <<>>
                    THEN LET pg == send_page(results, page)
                         IN  [asked EXCEPT !.jobs = pg.jobs, !.nav = pg.nav]
                    ELSE asked
        /\ UNCHANGED <<cachetools, now, job_cache, tasks, searches, user_data, ticks>>

\* handle_callback, data = page_<search_id>_<page> (bot.py:421-427)
PageRequest(u, id, page) ==
    LET results == IF id \in DOMAIN user_data[u] THEN user_data[u][id] ELSE <<>>
        asked == [NoReply EXCEPT !.handler = "page", !.user = u, !.data = <<id, page>>]
    IN  /\ concurrent_updates \/ Waiting = {}
        /\ reply' = IF results # <<>>
                    THEN LET pg == send_page(results, page)
                         IN  [asked EXCEPT !.jobs = pg.jobs, !.nav = pg.nav]
                    ELSE asked
        /\ UNCHANGED <<cachetools, now, job_cache, tasks, searches, user_data, ticks>>

\* Time passes, to the next timer of a waiting search or, with none waiting,
\* by the cache's time to live; a wait_for timer fires before the clock
\* moves past it
TickSteps == IF Waiting = {} THEN {ttl} ELSE {SEARCH_TIMEOUT}

Tick(d) ==
    /\ ticks < MaxTicks
    /\ \A sid \in Waiting : now + d <= Deadline(searches[sid])
    /\ now' = now + d
    /\ ticks' = ticks + 1
    /\ UNCHANGED <<cachetools, job_cache, tasks, searches, user_data, reply>>

-----------------------------------------------------------------------------
(* The state the behaviours start in                                       *)

DigitChar == <<"0", "1", "2", "3", "4", "5", "6", "7", "8", "9">>
FillerTerm(i) == <<"f", DigitChar[(i \div 100) + 1], DigitChar[((i \div 10) % 10) + 1],
                   DigitChar[(i % 10) + 1]>>

\* init_db (database.py:37-124) on a new file: every table empty
InitDb ==
    /\ users = <<>>
    /\ sent_jobs = <<>>
    /\ favorites = [rows |-> <<>>, seq |-> 0]
    /\ alerts = [rows |-> <<>>, seq |-> 0]
    /\ db_ret = [op |-> "none", user_id |-> 0, job_url |-> 0, value |-> FALSE,
                 raised |-> FALSE]

\* The module's globals after import (bot.py:42-48, 80, 83) and an
\* application with no chat yet
Init ==
    /\ cachetools \in BOOLEAN
    /\ job_cache = <<>>
    /\ now = 0
    /\ tasks = <<>>
    /\ searches = <<>>
    /\ user_data = [u \in Users |-> <<>>]
    /\ reply = NoReply
    /\ ticks = 0
    /\ InitDb

\* The cache and the search engine: scrape_jobs either returns MaxRows rows
\* or raises
UpstreamFew == {[kind |-> "rows", n |-> MaxRows], [kind |-> "raise", n |-> 0]}

Next ==
    /\ \/ \E term \in SearchTerms, cc \in Selectors :
              Len(searches) < MaxSearches /\ SearchHit(1, term, cc, 1)
       \/ \E term \in SearchTerms, cc \in Selectors :
              Len(searches) < MaxSearches /\ SearchMiss(1, term, cc)
       \/ \E i \in 1..Len(tasks), out \in UpstreamFew : WorkerReturn(i, out)
       \/ \E sid \in 1..Len(searches) : GatherDone(sid, 1)
       \/ \E sid \in 1..Len(searches) : Timeout(sid, 1)
       \/ \E d \in TickSteps : Tick(d)
    /\ UNCHANGED dbVars

Spec == Init /\ [][Next]_vars

\* One search in full: every way a scrape_jobs call can end, for either user
NextGather ==
    /\ \/ \E u \in Users, cc \in Selectors : searches = <<>> /\ SearchMiss(u, <<"a">>, cc)
       \/ \E i \in 1..Len(tasks), out \in Upstream : WorkerReturn(i, out)
       \/ \E sid \in 1..Len(searches), id \in SearchIds : GatherDone(sid, id)
       \/ \E sid \in 1..Len(searches) : Timeout(sid, 1)
       \/ \E d \in TickSteps : Tick(d)
    /\ UNCHANGED dbVars

SpecGather == Init /\ [][NextGather]_vars

\* The cache at capacity: the state after maxsize single-region searches
\* for distinct terms, the i-th stored at second i, each having found one
\* posting; then searches for a stored term and for new ones
Prefilled(n) ==
    [i \in 1..n |->
        [key |-> cache_key(FillerTerm(i), "qa"),
         value |-> search_single_country([kind |-> "rows", n |-> 1], "qa").val,
         created |-> i]]

InitFull ==
    /\ cachetools \in BOOLEAN
    /\ job_cache = Prefilled(maxsize)
    /\ now = maxsize
    /\ tasks = <<>>
    /\ searches = <<>>
    /\ user_data = [u \in Users |-> <<>>]
    /\ reply = NoReply
    /\ ticks = 0
    /\ InitDb

CapacityTerms == {FillerTerm(1), <<"a">>, <<"b">>}

NextCapacity ==
    /\ \/ \E term \in CapacityTerms :
              Len(searches) < MaxSearches /\ SearchHit(1, term, "qa", 1)
       \/ \E term \in CapacityTerms :
              Len(searches) < MaxSearches /\ SearchMiss(1, term, "qa")
       \/ \E i \in 1..Len(tasks), out \in UpstreamFew : WorkerReturn(i, out)
       \/ \E sid \in 1..Len(searches) : GatherDone(sid, 1)
       \/ \E sid \in 1..Len(searches) : Timeout(sid, 1)
       \/ \E d \in TickSteps : Tick(d)
    /\ UNCHANGED dbVars

SpecCapacity == InitFull /\ [][NextCapacity]_vars

\* Paging: single-region searches that fill sessions of one page, of two
\* pages and of more than MAX_RESULTS postings, and page_ callbacks
SessionRows == 1..(MAX_RESULTS + 1)

NextPage ==
    /\ \/ \E u \in Users :
             Len(searches) < MaxSearches /\ SearchMiss(u, <<"a">>, "qa")
       \/ \E u \in Users, id \in SearchIds :
             Len(searches) < MaxSearches /\ SearchHit(u, <<"a">>, "qa", id)
       \/ \E i \in 1..Len(tasks), n \in SessionRows :
             WorkerReturn(i, [kind |-> "rows", n |-> n])
       \/ \E sid \in 1..Len(searches), id \in SearchIds : GatherDone(sid, id)
       \/ \E u \in Users, id \in SearchIds, page \in Pages : PageRequest(u, id, page)
    /\ UNCHANGED dbVars

SpecPage == Init /\ [][NextPage]_vars

\* The merge: one all-regions search whose workers, returning in any order,
\* each fetch one row, MergeRows rows, or fail; then the same search again
MergeRows == 4
\* Sessions that outlive their cache entry: searches of two keys with results
\* of one page or two, the entry's time to live passing in between, then
\* page requests
SessionTerms == {<<"a">>, <<"b">>}
SessionCounts == {1, RESULTS_PER_PAGE + 1}

NextSession ==
    /\ \/ \E u \in Users, term \in SessionTerms :
             Len(searches) < MaxSearches /\ SearchMiss(u, term, "qa")
       \/ \E u \in Users, term \in SessionTerms, id \in SearchIds :
             Len(searches) < MaxSearches /\ SearchHit(u, term, "qa", id)
       \/ \E i \in 1..Len(tasks), n \in SessionCounts :
             WorkerReturn(i, [kind |-> "rows", n |-> n])
       \/ \E sid \in 1..Len(searches), id \in SearchIds : GatherDone(sid, id)
       \/ Tick(ttl)
       \/ \E u \in Users, id \in SearchIds, page \in Pages : PageRequest(u, id, page)
    /\ UNCHANGED dbVars

SpecSession == Init /\ [][NextSession]_vars

UpstreamMerge ==
    {[kind |-> "rows", n |-> n] : n \in {1, MergeRows}} \cup {[kind |-> "raise", n |-> 0]}

NextMerge ==
    /\ \/ \E u \in Users : searches = <<>> /\ SearchMiss(u, <<"a">>, "all")
       \/ \E u \in Users :
             Len(searches) < MaxSearches /\ SearchHit(u, <<"a">>, "all", 1)
       \/ \E i \in 1..Len(tasks), out \in UpstreamMerge : WorkerReturn(i, out)
       \/ \E sid \in 1..Len(searches), id \in SearchIds : GatherDone(sid, id)
    /\ UNCHANGED dbVars

SpecMerge == Init /\ [][NextMerge]_vars

\* The key: searches of one region for every text of up to MaxLen characters
\* over a small alphabet of letters in both cases and the space
MaxLen == 3
KeyChars == {" ", "a", "A", "b"}
KeyTerms == UNION {[1..n -> KeyChars] : n \in 1..MaxLen}

NextKey ==
    /\ \/ \E term \in KeyTerms :
             Len(searches) < MaxSearches /\ SearchMiss(1, term, "qa")
       \/ \E term \in KeyTerms :
             Len(searches) < MaxSearches /\ SearchHit(1, term, "qa", 1)
       \/ \E i \in 1..Len(tasks), n \in {1, MaxRows} :
             WorkerReturn(i, [kind |-> "rows", n |-> n])
       \/ \E sid \in 1..Len(searches) : GatherDone(sid, 1)
    /\ UNCHANGED dbVars

SpecKey == Init /\ [][NextKey]_vars

\* The selector: handle_callback stores whatever follows "country_" in the
\* callback data (bot.py:395-397), which the client sends: a menu button's
\* code, the same code in capitals, or a code of no region
AnySelectors == {"qa", "QA", "xx"}

NextSelector ==
    /\ \/ \E u \in Users, cc \in AnySelectors :
             Len(searches) < MaxSearches /\ SearchMiss(u, <<"a">>, cc)
       \/ \E u \in Users, cc \in AnySelectors :
             Len(searches) < MaxSearches /\ SearchHit(u, <<"a">>, cc, 1)
       \/ \E i \in 1..Len(tasks), out \in UpstreamFew : WorkerReturn(i, out)
       \/ \E sid \in 1..Len(searches) : GatherDone(sid, 1)
    /\ UNCHANGED dbVars

SpecSelector == Init /\ [][NextSelector]_vars

\* The race: search_jobs_logic awaited by two callers at once, which the
\* event loop allows wherever the coroutine is started while another call
\* of it waits (the dispatcher of bot.py:539 itself starts one handler at a
\* time); both calls are for one key
NextRace ==
    /\ \/ \E u \in Users : Len(searches) < MaxSearches /\ Miss(u, <<"a">>, "qa")
       \/ \E u \in Users : Len(searches) < MaxSearches /\ Hit(u, <<"a">>, "qa", 1)
       \/ \E i \in 1..Len(tasks), out \in Upstream : WorkerReturn(i, out)
       \/ \E sid \in 1..Len(searches), id \in SearchIds : GatherDone(sid, id)
       \/ \E sid \in 1..Len(searches) : Timeout(sid, 1)
       \/ \E d \in TickSteps : Tick(d)
    /\ UNCHANGED dbVars

SpecRace == Init /\ [][NextRace]_vars

\* After a deadline: searches for one term, with the clock moving to the
\* deadline while a search waits and, between searches, by less than the
\* time to live or by all of it
StaleSteps == IF Waiting = {} THEN {ttl - SEARCH_TIMEOUT, ttl} ELSE {SEARCH_TIMEOUT}

NextStale ==
    /\ \/ \E cc \in Selectors : Len(searches) < MaxSearches /\ SearchHit(1, <<"a">>, cc, 1)
       \/ \E cc \in Selectors : Len(searches) < MaxSearches /\ SearchMiss(1, <<"a">>, cc)
       \/ \E i \in 1..Len(tasks), out \in UpstreamFew : WorkerReturn(i, out)
       \/ \E sid \in 1..Len(searches) : GatherDone(sid, 1)
       \/ \E sid \in 1..Len(searches) : Timeout(sid, 1)
       \/ \E d \in StaleSteps : Tick(d)
    /\ UNCHANGED dbVars

SpecStale == Init /\ [][NextStale]_vars

-----------------------------------------------------------------------------
(* database.py: users and the sent_jobs ledger.  Each function runs in one  *)
(* transaction (get_db, database.py:20-34); PRAGMA foreign_keys=ON.         *)

NumUrls == 2
UserIds == 1..NumUsers
JobUrls == 1..NumUrls

Called(op, user_id, job_url, value, raised) ==
    [op |-> op, user_id |-> user_id, job_url |-> job_url, value |-> value,
     raised |-> raised]

\* SELECT id FROM sent_jobs WHERE user_id = ? AND job_url = ? (database.py:331-335)
SentRow(rows, user_id, job_url) ==
    \E i \in 1..Len(rows) : rows[i].user_id = user_id /\ rows[i].job_url = job_url

\* The table without its UNIQUE(user_id, job_url): every insert adds a row
InsertAlways(rows, us, user_id, job_url) ==
    IF user_id \notin DOMAIN us
    THEN rows
    ELSE Append(rows, [id |-> Len(rows) + 1, user_id |-> user_id, job_url |-> job_url])

\* A ledger that keeps one row, the latest, for each user
InsertKeepLatest(rows, us, user_id, job_url) ==
    IF user_id \notin DOMAIN us
    THEN rows
    ELSE Append(SelectSeq(rows, LAMBDA r : r.user_id # user_id),
                [id |-> Len(rows) + 1, user_id |-> user_id, job_url |-> job_url])

\* INSERT OR IGNORE INTO sent_jobs under the table's constraints
\* (database.py:84-91, 341-347): a row that repeats (user_id, job_url) is
\* skipped; a user_id with no users row fails the foreign key, which OR
\* IGNORE does not cover, and the IntegrityError is swallowed
InsertOrIgnore(rows, us, user_id, job_url) ==
    IF SentRow(rows, user_id, job_url)
    THEN rows
    ELSE IF user_id \notin DOMAIN us
         THEN rows
         ELSE Append(rows, [id |-> Len(rows) + 1, user_id |-> user_id,
                            job_url |-> job_url])

\* get_or_create_user (database.py:131-157)
GetOrCreateUser(user_id) ==
    /\ users' = IF user_id \in DOMAIN users
                THEN users
                ELSE (user_id :> [alerts_enabled |-> 0]) @@ users
    /\ db_ret' = Called("get_or_create_user", user_id, 0, FALSE, FALSE)
    /\ UNCHANGED <<sent_jobs, favorites, alerts>>

\* mark_job_sent (database.py:338-347)
MarkJobSent(user_id, job_url) ==
    /\ sent_jobs' = InsertOrIgnore(sent_jobs, users, user_id, job_url)
    /\ db_ret' = Called("mark_job_sent", user_id, job_url, FALSE, FALSE)
    /\ UNCHANGED <<users, favorites, alerts>>

\* is_job_sent (database.py:328-335)
IsJobSent(user_id, job_url) ==
    /\ db_ret' = Called("is_job_sent", user_id, job_url,
                        SentRow(sent_jobs, user_id, job_url), FALSE)
    /\ UNCHANGED <<users, sent_jobs, favorites, alerts>>

NextDb ==
    /\ \/ \E u \in UserIds : GetOrCreateUser(u)
       \/ \E u \in UserIds, url \in JobUrls : MarkJobSent(u, url)
       \/ \E u \in UserIds, url \in JobUrls : IsJobSent(u, url)
    /\ UNCHANGED searchVars

SpecDb == Init /\ [][NextDb]_vars

\* SELECT id FROM favorites WHERE user_id = ? AND job_url = ? (database.py:197-200)
FavRow(rows, user_id, job_url) ==
    \E i \in 1..Len(rows) : rows[i].user_id = user_id /\ rows[i].job_url = job_url

\* save_favorite (database.py:193-220): the table after the call, the value
\* returned, and whether the call raised.  The INSERT of a user_id with no
\* users row fails the foreign key; nothing catches the IntegrityError and
\* get_db rolls back
save_favorite(fav, us, user_id, job_url) ==
    IF FavRow(fav.rows, user_id, job_url)
    THEN [fav |-> fav, value |-> FALSE, raised |-> FALSE]
    ELSE IF user_id \notin DOMAIN us
         THEN [fav |-> fav, value |-> FALSE, raised |-> TRUE]
         ELSE [fav |-> [rows |-> Append(fav.rows, [id |-> fav.seq + 1, user_id |-> user_id,
                                                   job_url |-> job_url]),
                        seq |-> fav.seq + 1],
               value |-> TRUE, raised |-> FALSE]

SaveFavorite(user_id, job_url) ==
    LET r == save_favorite(favorites, users, user_id, job_url)
    IN  /\ favorites' = r.fav
        /\ db_ret' = Called("save_favorite", user_id, job_url, r.value, r.raised)
        /\ UNCHANGED <<users, sent_jobs, alerts>>

\* remove_favorite (database.py:233-240): DELETE ... WHERE id = ? AND user_id = ?
RemoveFavorite(user_id, favorite_id) ==
    /\ favorites' = [favorites EXCEPT !.rows =
          SelectSeq(@, LAMBDA r : ~(r.id = favorite_id /\ r.user_id = user_id))]
    /\ db_ret' = Called("remove_favorite", user_id, favorite_id,
                        \E i \in 1..Len(favorites.rows) :
                            /\ favorites.rows[i].id = favorite_id
                            /\ favorites.rows[i].user_id = user_id,
                        FALSE)
    /\ UNCHANGED <<users, sent_jobs, alerts>>

\* log_search (database.py:364-378): creates the users row if there is none
LogSearch(user_id) ==
    /\ users' = IF user_id \in DOMAIN users
                THEN users
                ELSE (user_id :> [alerts_enabled |-> 0]) @@ users
    /\ db_ret' = Called("log_search", user_id, 0, FALSE, FALSE)
    /\ UNCHANGED <<sent_jobs, favorites, alerts>>

\* The writing functions of the module, called in any order
MaxFavs == 2
NextStore ==
    /\ \/ \E u \in UserIds : GetOrCreateUser(u)
       \/ \E u \in UserIds : LogSearch(u)
       \/ \E u \in UserIds, url \in JobUrls : MarkJobSent(u, url)
       \/ \E u \in UserIds, url \in JobUrls : IsJobSent(u, url)
       \/ \E u \in UserIds, url \in JobUrls :
             favorites.seq < MaxFavs /\ SaveFavorite(u, url)
       \/ \E u \in UserIds, id \in 1..MaxFavs : RemoveFavorite(u, id)
    /\ UNCHANGED searchVars

SpecStore == Init /\ [][NextStore]_vars

\* SELECT ... FROM alerts WHERE user_id = ? AND is_active = 1 (database.py:294-297)
ActiveAlerts(rows, user_id) ==
    {i \in 1..Len(rows) : rows[i].user_id = user_id /\ rows[i].is_active = 1}

\* add_alert (database.py:256-274): the alerts table and the users table
\* after the call, the value returned, and whether the call raised.  The
\* keyword is compared and stored as keyword.lower().strip().  The INSERT
\* of a user_id with no users row fails the foreign key; nothing catches
\* the IntegrityError and get_db rolls back
add_alert(al, us, user_id, keyword, country_code) ==
    LET kw == strip(lower(keyword))
        existing == \E i \in ActiveAlerts(al.rows, user_id) :
                       /\ al.rows[i].keyword = kw
                       /\ al.rows[i].country_code = country_code
    IN  IF existing
        THEN [al |-> al, us |-> us, value |-> -1, raised |-> FALSE]
        ELSE IF user_id \notin DOMAIN us
             THEN [al |-> al, us |-> us, value |-> 0, raised |-> TRUE]
             ELSE [al |-> [rows |-> Append(al.rows,
                                      [id |-> al.seq + 1, user_id |-> user_id,
                                       keyword |-> kw, country_code |-> country_code,
                                       is_active |-> 1]),
                           seq |-> al.seq + 1],
                   us |-> [us EXCEPT ![user_id].alerts_enabled = 1],
                   value |-> al.seq + 1, raised |-> FALSE]

AddAlert(user_id, keyword, country_code) ==
    LET r == add_alert(alerts, users, user_id, keyword, country_code)
    IN  /\ alerts' = r.al
        /\ users' = r.us
        /\ db_ret' = Called("add_alert", user_id, 0, r.value, r.raised)
        /\ UNCHANGED <<sent_jobs, favorites>>

\* A removal that clears the user's flag whatever alerts remain active
remove_alert_always_off(al, us, user_id, alert_id) ==
    LET hit(r) == r.id = alert_id /\ r.user_id = user_id
        rows == [i \in 1..Len(al.rows) |->
                    IF hit(al.rows[i]) THEN [al.rows[i] EXCEPT !.is_active = 0]
                    ELSE al.rows[i]]
    IN  [al |-> [al EXCEPT !.rows = rows],
         us |-> IF user_id \in DOMAIN us
                THEN [us EXCEPT ![user_id].alerts_enabled = 0]
                ELSE us,
         value |-> \E i \in 1..Len(al.rows) : hit(al.rows[i])]

\* remove_alert (database.py:287-303): UPDATE alerts SET is_active = 0 WHERE
\* id = ? AND user_id = ?, then the user's flag is cleared when no active
\* alert of the user remains; returns rowcount > 0
remove_alert(al, us, user_id, alert_id) ==
    LET hit(r) == r.id = alert_id /\ r.user_id = user_id
        rows == [i \in 1..Len(al.rows) |->
                    IF hit(al.rows[i]) THEN [al.rows[i] EXCEPT !.is_active = 0]
                    ELSE al.rows[i]]
    IN  [al |-> [al EXCEPT !.rows = rows],
         us |-> IF ActiveAlerts(rows, user_id) = {} /\ user_id \in DOMAIN us
                THEN [us EXCEPT ![user_id].alerts_enabled = 0]
                ELSE us,
         value |-> \E i \in 1..Len(al.rows) : hit(al.rows[i])]

RemoveAlert(user_id, alert_id) ==
    LET r == remove_alert(alerts, users, user_id, alert_id)
    IN  /\ alerts' = r.al
        /\ users' = r.us
        /\ db_ret' = Called("remove_alert", user_id, alert_id, r.value, FALSE)
        /\ UNCHANGED <<sent_jobs, favorites>>

\* The functions that touch a user's alerts or create the users row, called
\* in any order
MaxAlerts == 3
AlertKeywords == {<<"a">>, <<" ", "A">>, <<"b">>}
NextAlerts ==
    /\ \/ \E u \in UserIds : GetOrCreateUser(u)
       \/ \E u \in UserIds : LogSearch(u)
       \/ \E u \in UserIds, kw \in AlertKeywords, cc \in Selectors :
             alerts.seq < MaxAlerts /\ AddAlert(u, kw, cc)
       \/ \E u \in UserIds, id \in 1..MaxAlerts : RemoveAlert(u, id)
    /\ UNCHANGED searchVars

SpecAlerts == Init /\ [][NextAlerts]_vars

-----------------------------------------------------------------------------
(* Claims                                                                  *)

\* An entry for key that was stored less than ttl seconds before t
Live(cache, key, t) ==
    \E i \in 1..Len(cache) : cache[i].key = key /\ t < cache[i].created + ttl

Last(seq) == seq[Len(seq)]
Started == Len(searches') = Len(searches) + 1

\* C1: a search whose key is present and unexpired in the cache returns the
\* cached result set, empty or not, and submits no worker, whatever its
\* selector
C1_CacheHitNoFetch ==
    [][Started /\ Live(job_cache, Last(searches').key, now)
         => /\ Last(searches').st = "returned"
            /\ Last(searches').result = EntryOf(job_cache, Last(searches').key).value
            /\ tasks' = tasks]_searchVars

\* an all-regions search served from the cache with an empty result set
C1_Witness ==
    \E sid \in 1..Len(searches) :
        /\ searches[sid].hit
        /\ searches[sid].cc = "all"
        /\ searches[sid].result = <<>>
        /\ sid > 1 /\ searches[sid - 1].key = searches[sid].key /\ ~searches[sid - 1].hit

\* The postings a worker for region cc hands over when upstream gave n rows
Stamped(cc, n) == [i \in 1..n |-> [job_url |-> <<cc, i>>, country_name |-> CountryName(cc)]]
Postings(seq) == {seq[i] : i \in 1..Len(seq)}
Fetched == {sid \in 1..Len(searches) : searches[sid].st # "waiting" /\ ~searches[sid].hit}
RegionsOf(sid) == IF searches[sid].cc = "all" THEN COUNTRIES ELSE <<searches[sid].cc>>

\* C2 (as claimed): an all-regions search ended by the deadline returns the
\* postings of every worker that had completed by then
C2_PartialMergeOnTimeout ==
    \A sid \in Fetched :
        searches[sid].timedout /\ searches[sid].cc = "all"
        => \A i \in 1..Len(searches[sid].outs) :
              searches[sid].outs[i].kind = "rows"
              => Postings(Stamped(COUNTRIES[i], searches[sid].outs[i].n))
                    \subseteq Postings(searches[sid].result)

\* C3: whichever workers fail (an exception, None, no rows), a search that
\* ends before its deadline returns, without raising, exactly the
\* concatenation in region order of what the other workers fetched
C3_FailuresContributeNothing ==
    \A sid \in Fetched :
        ~searches[sid].timedout
        => /\ searches[sid].st = "returned"
           /\ searches[sid].result =
                 Concat([i \in 1..Len(searches[sid].outs) |->
                    IF searches[sid].outs[i].kind = "rows"
                    THEN Stamped(RegionsOf(sid)[i], searches[sid].outs[i].n)
                    ELSE <<>>])

\* one worker raised, one got None, two fetched rows
C3_Witness ==
    \E sid \in Fetched :
        /\ searches[sid].cc = "all" /\ ~searches[sid].timedout
        /\ \E i, j \in 1..4 : /\ searches[sid].outs[i].kind = "raise"
                              /\ searches[sid].outs[j].kind = "none"
        /\ Len(searches[sid].result) = 1 + MaxRows

\* C4: a search that missed the cache is back at its caller no later than
\* SEARCH_TIMEOUT after dispatch, workers that never return or not, and holds
\* nothing of a worker that has not returned
C4_ReturnsByDeadline ==
    /\ \A sid \in Waiting : now <= searches[sid].dispatched + SEARCH_TIMEOUT
    /\ \A sid \in Fetched :
          /\ searches[sid].returned <= searches[sid].dispatched + SEARCH_TIMEOUT
          /\ \A i \in 1..Len(searches[sid].outs) :
                searches[sid].outs[i].kind = "pending"
                => \A k \in 1..Len(searches[sid].result) :
                      searches[sid].result[k].country_name # CountryName(RegionsOf(sid)[i])

\* a single-region search back at the deadline while its only call still runs
C4_Witness ==
    \E sid \in Fetched :
        /\ searches[sid].cc # "all"
        /\ searches[sid].returned = searches[sid].dispatched + SEARCH_TIMEOUT
        /\ \E i \in Running(tasks) : tasks[i].sid = sid

\* C8 (as claimed): once ttl seconds have passed since a key was stored, a
\* search for it is a miss and submits workers again
C8_ExpiredIsMiss ==
    [][Started /\ HasKey(job_cache, Last(searches').key)
               /\ ~Live(job_cache, Last(searches').key, now)
         => ~Last(searches').hit /\ Len(tasks') > Len(tasks)]_searchVars

Keys(cache) == {cache[i].key : i \in 1..Len(cache)}
EarliestKey(cache) ==
    (CHOOSE e \in {cache[i] : i \in 1..Len(cache)} :
        \A i \in 1..Len(cache) : e.created <= cache[i].created).key
Stored(sid) == sid \in Waiting /\ searches'[sid].st = "returned"

\* C9 (as claimed): a put for a new key into a cache that holds maxsize
\* entries evicts exactly one entry, the earliest created
C9_EvictsEarliestCreated ==
    [][\A sid \in 1..Len(searches) :
          Stored(sid) /\ Len(job_cache) = maxsize /\ ~HasKey(job_cache, searches[sid].key)
          => Keys(job_cache') =
                (Keys(job_cache) \ {EarliestKey(job_cache)}) \cup {searches[sid].key}
       ]_searchVars

\* C10 (as claimed): the cache never holds more than maxsize entries
C10_AtMostMaxsize == Len(job_cache) <= maxsize

\* C5 (as claimed): a page request naming a session id the store does not
\* hold shows the user something: it is not answered with silence
C5_InvalidSessionReported ==
    reply.handler = "page" /\ reply.data[1] \notin DOMAIN user_data[reply.user]
    => reply.notice # "none" \/ reply.jobs # <<>> \/ reply.nav # <<>>

\* C6 (as claimed): after mark_job_sent(user_id, url), for any user_id,
\* no error was raised and is_job_sent(user_id, url) is true
C6_MarkedIsSent ==
    db_ret.op = "mark_job_sent"
    => ~db_ret.raised /\ SentRow(sent_jobs, db_ret.user_id, db_ret.job_url)

\* C7: the ledger holds at most one row for each (user_id, url)
C7_OneRowPerPair ==
    \A i, j \in 1..Len(sent_jobs) :
        sent_jobs[i].user_id = sent_jobs[j].user_id
        /\ sent_jobs[i].job_url = sent_jobs[j].job_url => i = j

\* a pair marked again after another pair was marked in between
C7_Witness ==
    /\ Len(sent_jobs) = 2
    /\ db_ret.op = "mark_job_sent"
    /\ db_ret.user_id = sent_jobs[1].user_id
    /\ db_ret.job_url = sent_jobs[1].job_url

\* C11: at the step that ends a search that missed the cache, the cache
\* holds under the search's key exactly the result set the search returns,
\* empty or not, and a membership test for the key succeeds
C11_MissResultCached ==
    [][\A sid \in 1..Len(searches) :
          Stored(sid)
          => /\ CacheContains(job_cache', searches[sid].key, now')
             /\ EntryOf(job_cache', searches[sid].key).value = searches'[sid].result
      ]_searchVars

\* a search whose only worker failed, back before the deadline with nothing
\* and cached as nothing
C11_Witness ==
    \E sid \in Fetched :
        /\ searches[sid].st = "returned" /\ ~searches[sid].timedout
        /\ searches[sid].result = <<>>
        /\ HasKey(job_cache, searches[sid].key)
        /\ EntryOf(job_cache, searches[sid].key).value = <<>>

\* C12 (as claimed): every result set a search returns and every result set
\* the cache holds has at most MAX_RESULTS postings
C12_AtMostMaxResults ==
    /\ \A sid \in 1..Len(searches) :
          searches[sid].st = "returned" => Len(searches[sid].result) <= MAX_RESULTS
    /\ \A i \in 1..Len(job_cache) : Len(job_cache[i].value) <= MAX_RESULTS

\* Position of a region's name in the enumeration order of COUNTRIES
RegionIndex(name) == CHOOSE i \in 1..Len(COUNTRIES) : CountryName(COUNTRIES[i]) = name

\* C13: in the result set of an all-regions search no posting comes before
\* a posting of an earlier region, and two postings of one region stand in
\* the order upstream returned them (job_url carries the upstream row number)
C13_GroupedInRegionOrder ==
    \A sid \in 1..Len(searches) :
        searches[sid].cc = "all" /\ searches[sid].st = "returned"
        => \A k, l \in 1..Len(searches[sid].result) :
              k < l =>
                 LET a == searches[sid].result[k]
                     b == searches[sid].result[l]
                 IN  \/ RegionIndex(a.country_name) < RegionIndex(b.country_name)
                     \/ /\ a.country_name = b.country_name
                        /\ a.job_url[1] = b.job_url[1]
                        /\ a.job_url[2] < b.job_url[2]

\* an all-regions search in which three regions gave postings, one of them
\* several, and one region failed
C13_Witness ==
    \E sid \in Fetched :
        /\ searches[sid].cc = "all" /\ searches[sid].st = "returned"
        /\ searches[sid].outs[1].kind = "raise"
        /\ searches[sid].outs[2].n = 1
        /\ searches[sid].outs[3].n = MergeRows
        /\ searches[sid].outs[4].n = 1
        /\ Len(searches[sid].result) = MergeRows + 2

\* The last handler was a page request for a session its user holds
PageAsked == reply.handler = "page" /\ reply.data[1] \in DOMAIN user_data[reply.user]
Session == user_data[reply.user][reply.data[1]]
AskedPage == reply.data[2]
CeilDiv(n, k) == CHOOSE q \in 0..n : (q - 1) * k < n /\ n <= q * k
PrevOffered == reply.nav # <<>> /\ reply.nav[1].prev
NextOffered == reply.nav # <<>> /\ reply.nav[1].next
Slice(seq, from, to) == [k \in 1..(to - from) |-> seq[from + k]]
InRange == AskedPage < CeilDiv(Len(Session), RESULTS_PER_PAGE)
PageDelivered ==
    /\ Len(Session) \in 1..MAX_RESULTS
    /\ reply.jobs =
          Slice(Session, RESULTS_PER_PAGE * AskedPage,
                IF RESULTS_PER_PAGE * AskedPage + RESULTS_PER_PAGE < Len(Session)
                THEN RESULTS_PER_PAGE * AskedPage + RESULTS_PER_PAGE ELSE Len(Session))
    /\ PrevOffered <=> AskedPage > 0
    /\ NextOffered <=> (AskedPage + 1) * RESULTS_PER_PAGE < Len(Session)

\* C14 (as claimed): a page within range delivers its slice of the session,
\* offers previous exactly when p > 0 and next exactly when (p+1)*5 < n, and
\* reports the total page count ceil(n/5)
C14_PageAsClaimed ==
    PageAsked /\ InRange
    => /\ PageDelivered
       /\ Len(reply.nav) = 1
       /\ reply.nav[1].label = <<AskedPage + 1, CeilDiv(Len(Session), RESULTS_PER_PAGE)>>

\* C14 (amended): the slice and the two controls as claimed; the total page
\* count ceil(n/5) is reported when n > 5, and for n <= 5 no navigation
\* message, and with it no page count, is sent
C14_PageSlice ==
    PageAsked /\ InRange
    => /\ PageDelivered
       /\ IF Len(Session) > RESULTS_PER_PAGE
          THEN /\ Len(reply.nav) = 1
               /\ reply.nav[1].label =
                     <<AskedPage + 1, CeilDiv(Len(Session), RESULTS_PER_PAGE)>>
          ELSE reply.nav = <<>>

\* the last page of a session of 12: two postings, previous and no next
C14_Witness ==
    /\ PageAsked /\ Len(Session) = 12 /\ AskedPage = 2
    /\ Len(reply.jobs) = 2
    /\ PrevOffered /\ ~NextOffered

\* C15: a page index at or beyond the total page count of a valid session
\* is answered (the handler runs to its end) with no posting and no next
\* control
C15_OutOfRangePageEmpty ==
    PageAsked /\ ~InRange
    => reply.jobs = <<>> /\ ~NextOffered

\* page 3 of a session of 15 (three pages), and page 1 of a session of one page
C15_Witness ==
    /\ PageAsked /\ ~InRange
    /\ \/ Len(Session) = MAX_RESULTS /\ AskedPage = 3 /\ reply.nav # <<>>
       \/ Len(Session) <= RESULTS_PER_PAGE /\ AskedPage = 1 /\ reply.nav = <<>>

\* The step is a search of user u that found postings and opened a session
Opened(u) ==
    /\ searches' # searches
    /\ reply'.handler = "search" /\ reply'.notice = "found" /\ reply'.user = u

\* C16 (as claimed): the results stored under a session id never change,
\* and a search that opens a session stores it under an id that is not in
\* use in its conversation
C16_SessionsNeverReused ==
    [][\A u \in Users :
          /\ \A id \in DOMAIN user_data[u] :
                id \in DOMAIN user_data'[u] /\ user_data'[u][id] = user_data[u][id]
          /\ Opened(u) => DOMAIN user_data'[u] # DOMAIN user_data[u]
      ]_vars

\* Two characters that are the same letter in either case
SameLetter(c, d) == c = d \/ {c, d} = {"a", "A"} \/ {c, d} = {"b", "B"}
Blank(s) == \A i \in 1..Len(s) : s[i] = " "

\* s and t are margins of spaces around cores that agree letter by letter
\* up to case
SameButCaseAndMargins(s, t) ==
    \E i \in 0..Len(s), j \in 0..Len(t) :
        \E n \in 0..(Len(s) - i) :
            /\ i + n <= Len(s) /\ j + n <= Len(t)
            /\ Blank(SubSeq(s, 1, i)) /\ Blank(SubSeq(s, i + n + 1, Len(s)))
            /\ Blank(SubSeq(t, 1, j)) /\ Blank(SubSeq(t, j + n + 1, Len(t)))
            /\ \A k \in 1..n : SameLetter(s[i + k], t[j + k])

\* C17: of two searches with the same region selector whose terms differ
\* only in letter case and in leading or trailing spaces, the second has
\* the first one's cache key and is served from the entry the first stored
C17_SameKeyUpToCaseAndMargins ==
    \A i, j \in 1..Len(searches) :
        /\ i < j
        /\ searches[i].cc = searches[j].cc
        /\ SameButCaseAndMargins(searches[i].term, searches[j].term)
        => /\ searches[j].key = searches[i].key
           /\ searches[j].hit
           /\ searches[j].result = searches[i].result

\* " a " fetched, then "A" served from the cache
C17_Witness ==
    /\ Len(searches) = 2
    /\ searches[1].term = <<" ", "a", " ">> /\ ~searches[1].hit
    /\ searches[2].term = <<"A">> /\ searches[2].hit
    /\ searches[2].result # <<>>

\* str.lower() on a region selector
LowerSelector(cc) == CASE cc = "QA" -> "qa" [] cc = "XX" -> "xx" [] OTHER -> cc

\* C18 (as claimed): two searches whose terms are equal after normalization
\* and whose selectors differ at most in letter case have the same cache key
C18_SelectorCaseSameKey ==
    \A i, j \in 1..Len(searches) :
        /\ strip(lower(searches[i].term)) = strip(lower(searches[j].term))
        /\ LowerSelector(searches[i].cc) = LowerSelector(searches[j].cc)
        => searches[i].key = searches[j].key

\* C20 (as claimed): a search with an empty term or with a selector that is
\* neither a region code nor "all" has no worker dispatched for it and
\* leaves no cache entry
C20_InvalidRequestRejected ==
    \A sid \in 1..Len(searches) :
        \/ searches[sid].term = <<>>
        \/ ~(Supported(searches[sid].cc) \/ searches[sid].cc = "all")
        => /\ \A i \in 1..Len(tasks) : tasks[i].sid # sid
           /\ ~HasKey(job_cache, searches[sid].key)

\* Search sid ends in this step
Ended(sid) == sid \in Waiting /\ searches'[sid].st # "waiting"

\* C19: a search started for a key while another search for it waits and
\* the key is not in the cache misses too and submits its own workers;
\* every search that ends returns (none raises); and a search that ends
\* while or after another search for its key missed leaves its own result
\* set in the cache, whatever the other one stored
C19_LastStoreWins ==
    [][/\ Started /\ ~CacheContains(job_cache, Last(searches').key, now)
             /\ (\E i \in Waiting : searches[i].key = Last(searches').key)
          => /\ ~Last(searches').hit
             /\ Len(TasksOf(tasks', Len(searches'))) = Len(Regions(Last(searches').cc))
       /\ \A sid \in 1..Len(searches) :
             Ended(sid)
             => /\ searches'[sid].st = "returned"
                /\ \A other \in 1..Len(searches) :
                      /\ other # sid
                      /\ searches[other].key = searches[sid].key
                      /\ ~searches[other].hit
                      => EntryOf(job_cache', searches[sid].key).value
                            = searches'[sid].result
      ]_searchVars

\* two searches for one key, both missed with no time between them, both
\* back with different result sets; the cache holds what the first to start,
\* last to store, returned
C19_Witness ==
    /\ Len(searches) = 2 /\ ticks = 0
    /\ searches[1].key = searches[2].key
    /\ ~searches[1].hit /\ ~searches[2].hit
    /\ searches[1].st = "returned" /\ searches[2].st = "returned"
    /\ searches[1].result # searches[2].result
    /\ EntryOf(job_cache, searches[1].key).value = searches[1].result

\* The calls of the pool in a given state, each named by its search and region
Calls(ts, st) == {<<ts[i].sid, ts[i].cc>> : i \in {j \in 1..Len(ts) : ts[j].st = st}}

\* C21: after every step at most max_workers calls are running, work is
\* queued only while max_workers calls are running, and a queued call
\* starts only in a step in which a running call returns
C21_AtMostFourInFlight ==
    [][/\ Cardinality(Calls(tasks', "running")) <= max_workers
       /\ Calls(tasks', "queued") # {}
            => Cardinality(Calls(tasks', "running")) = max_workers
       /\ Calls(tasks, "queued") \cap Calls(tasks', "running") # {}
            => Calls(tasks, "running") \ Calls(tasks', "running") # {}
      ]_searchVars

\* a worker of a second search running while the first search's hung calls
\* hold the other three threads and its own siblings wait in the queue
C21_Witness ==
    /\ Cardinality(Calls(tasks, "running")) = max_workers
    /\ \E c \in Calls(tasks, "running") : c[1] = 2
    /\ \E c \in Calls(tasks, "running") : c[1] = 1
    /\ \E c \in Calls(tasks, "queued") : c[1] = 2

\* C22: a search that misses the cache submits, in the step that starts it,
\* one call for its region if its selector names a region, and one call for
\* each of qa, ae, sa, bh if its selector is "all"; no call is ever in the
\* pool twice, and no step later adds a call for a search already started
C22_OneWorkerPerRegion ==
    [][/\ Started /\ ~Last(searches').hit
          => LET new == TasksOf(tasks', Len(searches'))
                 ccs == {new[i].cc : i \in 1..Len(new)}
             IN  /\ Len(new) = Cardinality(ccs)
                 /\ ccs = IF Last(searches').cc = "all"
                          THEN {"qa", "ae", "sa", "bh"}
                          ELSE {Last(searches').cc}
       /\ \A sid \in 1..Len(searches) :
             Len(TasksOf(tasks', sid)) <= Len(TasksOf(tasks, sid))
      ]_searchVars

\* an all-regions search waiting on its four calls
C22_Witness ==
    \E sid \in Waiting :
        /\ searches[sid].cc = "all"
        /\ Calls(TasksOf(tasks, sid), "running") =
              {<<sid, "qa">>, <<sid, "ae">>, <<sid, "sa">>, <<sid, "bh">>}

\* The searches that ended at their deadline
TimedOut == {sid \in 1..Len(searches) : searches[sid].timedout}

\* C23: a step in which a call returns whose search ended at its deadline
\* changes neither a search's returned result set, nor the cache, nor a
\* session, and sends nothing; and the result set such a search returned
\* holds no posting of a region whose call was still out at the deadline
C23_LateResultDiscarded ==
    [][/\ (\E c \in Calls(tasks, "running") \ Calls(tasks', "running") : c[1] \in TimedOut)
          => /\ searches' = searches
             /\ job_cache' = job_cache
             /\ user_data' = user_data
             /\ reply' = reply
       /\ \A sid \in TimedOut : \A i \in 1..Len(searches[sid].outs) :
             searches[sid].outs[i].kind = "pending"
             => /\ \A k \in 1..Len(searches'[sid].result) :
                      searches'[sid].result[k].job_url[1] # RegionsOf(sid)[i]
                /\ HasKey(job_cache', searches[sid].key)
                   => \A k \in 1..Len(EntryOf(job_cache', searches[sid].key).value) :
                         EntryOf(job_cache', searches[sid].key).value[k].job_url[1]
                            # RegionsOf(sid)[i]
      ]_searchVars

\* a search ended at its deadline whose call was still out then and has
\* returned since; the cache holds what the search returned
C23_Witness ==
    \E sid \in TimedOut :
        /\ \E i \in 1..Len(searches[sid].outs) : searches[sid].outs[i].kind = "pending"
        /\ TasksOf(tasks, sid) = <<>>
        /\ HasKey(job_cache, searches[sid].key)
        /\ EntryOf(job_cache, searches[sid].key).value = searches[sid].result

\* C24: a step that answers a page request leaves the pool, the cache,
\* every session and every search as they were, and what it delivers is
\* taken from the results stored under the session id it names
C24_PageRequestReadsOnly ==
    [][reply' # reply /\ reply'.handler = "page"
          => /\ tasks' = tasks
             /\ job_cache' = job_cache
             /\ user_data' = user_data
             /\ searches' = searches
             /\ reply'.data[1] \in DOMAIN user_data[reply'.user]
                => \A k \in 1..Len(reply'.jobs) :
                      \E n \in 1..Len(user_data[reply'.user][reply'.data[1]]) :
                          user_data[reply'.user][reply'.data[1]][n] = reply'.jobs[k]
      ]_vars

\* the second page of a session of 12 delivered, cache and session in place
C24_Witness ==
    /\ PageAsked /\ AskedPage = 1 /\ Len(Session) = 12
    /\ Len(reply.jobs) = RESULTS_PER_PAGE
    /\ job_cache # <<>>

\* The searches that complete in this step, from the cache or by their await
Completing ==
    {sid \in 1..Len(searches') :
        /\ searches'[sid].st = "returned"
        /\ sid > Len(searches) \/ searches[sid].st = "waiting"}

Capped(results) ==
    [k \in 1..(IF Len(results) < MAX_RESULTS THEN Len(results) ELSE MAX_RESULTS)
        |-> results[k]]

\* The step stores the capped results of search sid under one session id of
\* its user and touches no other session
OneSessionStored(sid) ==
    \E id \in DOMAIN user_data'[searches'[sid].user] :
        /\ user_data'[searches'[sid].user][id] = Capped(searches'[sid].result)
        /\ \A u \in Users : \A k \in DOMAIN user_data'[u] :
              u # searches'[sid].user \/ k # id
              => k \in DOMAIN user_data[u] /\ user_data'[u][k] = user_data[u][k]

\* C25 (as claimed): every completed search stores exactly one session,
\* whatever its result set, the empty one included
C25_SessionForEverySearch ==
    [][\A sid \in Completing : OneSessionStored(sid)]_vars

\* C25 (amended): a completed search whose result set is not empty stores
\* exactly one session; one whose result set is empty stores none, and the
\* user is told that nothing was found
C25_SessionIffResults ==
    [][\A sid \in Completing :
          IF searches'[sid].result # <<>>
          THEN OneSessionStored(sid)
          ELSE user_data' = user_data /\ reply'.notice = "notfound"
      ]_vars

\* a search whose workers all came back with nothing: completed, no session
C25_Witness ==
    /\ Len(searches) = 1
    /\ searches[1].st = "returned" /\ ~searches[1].timedout
    /\ searches[1].cc = "all" /\ searches[1].result = <<>>
    /\ DOMAIN user_data[searches[1].user] = {}
    /\ reply.notice = "notfound"

\* C26: a pair that is_job_sent finds is found after every later call of
\* the module, whichever it is
C26_LedgerAppendOnly ==
    [][\A u \in UserIds, url \in JobUrls :
          SentRow(sent_jobs, u, url) => SentRow(sent_jobs', u, url)]_vars

\* is_job_sent true for the pair marked first, after a pair was marked for
\* the other user and a favorite was saved and removed
C26_Witness ==
    /\ db_ret.op = "is_job_sent" /\ db_ret.value
    /\ Len(sent_jobs) >= 2
    /\ db_ret.user_id = sent_jobs[1].user_id /\ db_ret.job_url = sent_jobs[1].job_url
    /\ sent_jobs[2].user_id # sent_jobs[1].user_id
    /\ favorites.seq > 0 /\ favorites.rows = <<>>

\* C29 (as claimed): a user's favorites never hold two rows for one url, and
\* every save_favorite call returns: False, with nothing inserted, if the
\* user has a favorite with that url, and True, with the row inserted, if not
C29_OneFavoritePerUrl ==
    [][/\ \A i, j \in 1..Len(favorites'.rows) :
             /\ favorites'.rows[i].user_id = favorites'.rows[j].user_id
             /\ favorites'.rows[i].job_url = favorites'.rows[j].job_url
             => i = j
       /\ db_ret'.op = "save_favorite" /\ db_ret' # db_ret
          => /\ ~db_ret'.raised
             /\ IF FavRow(favorites.rows, db_ret'.user_id, db_ret'.job_url)
                THEN ~db_ret'.value /\ favorites' = favorites
                ELSE /\ db_ret'.value
                     /\ Len(favorites'.rows) = Len(favorites.rows) + 1
                     /\ FavRow(favorites'.rows, db_ret'.user_id, db_ret'.job_url)
      ]_vars

\* C27: every posting of every result set a search returned, from one
\* region or merged, and every posting delivered to a chat, is labelled with the name of the region whose call
\* fetched it (job_url carries the region upstream was asked for)
C27_StampedWithOrigin ==
    /\ \A sid \in 1..Len(searches) : \A k \in 1..Len(searches[sid].result) :
          searches[sid].result[k].country_name
             = CountryName(searches[sid].result[k].job_url[1])
    /\ \A k \in 1..Len(reply.jobs) :
          reply.jobs[k].country_name = CountryName(reply.jobs[k].job_url[1])

\* a merged result set with postings of Qatar and of Bahrain
C27_Witness ==
    \E sid \in Fetched :
        /\ searches[sid].cc = "all"
        /\ \E k, l \in 1..Len(searches[sid].result) :
              /\ searches[sid].result[k].country_name = "Qatar"
              /\ searches[sid].result[l].country_name = "Bahrain"
        /\ reply.jobs # <<>>

\* C28: when a search has announced its postings, a session of its user
\* holds the first min(MAX_RESULTS, n) of the n postings the search
\* returned, in order, and the count announced is that session's length
C28_SessionIsCappedPrefix ==
    reply.handler = "search" /\ reply.notice = "found"
    => \E id \in DOMAIN user_data[reply.user] :
          LET stored == user_data[reply.user][id]
              returned == Last(searches).result
          IN  /\ Len(stored) = (IF Len(returned) < MAX_RESULTS
                                THEN Len(returned) ELSE MAX_RESULTS)
              /\ \A k \in 1..Len(stored) : stored[k] = returned[k]
              /\ reply.count = Len(stored)

\* a search that returned MAX_RESULTS + 1 postings and announced MAX_RESULTS
C28_Witness ==
    /\ reply.handler = "search" /\ reply.notice = "found"
    /\ Len(Last(searches).result) = MAX_RESULTS + 1
    /\ reply.count = MAX_RESULTS
    /\ \E id \in DOMAIN user_data[reply.user] :
          Len(user_data[reply.user][id]) = MAX_RESULTS

CallsOf(ts, st, sid) == {c \in Calls(ts, st) : c[1] = sid}

\* C31: the step that ends a search at its deadline leaves every running
\* call of the search running and takes every queued call of the search
\* out of the queue; no call of a search that has ended is queued or starts
\* later, and the running calls of ended searches count against the
\* max_workers threads until they return
C31_RunningKeptQueuedCancelled ==
    [][/\ \A sid \in 1..Len(searches) :
             Ended(sid) /\ searches'[sid].timedout
             => /\ CallsOf(tasks, "running", sid) \subseteq CallsOf(tasks', "running", sid)
                /\ CallsOf(tasks', "queued", sid) = {}
       /\ \A sid \in 1..Len(searches) :
             searches[sid].st # "waiting"
             => /\ CallsOf(tasks', "queued", sid) = {}
                /\ CallsOf(tasks', "running", sid) \subseteq CallsOf(tasks, "running", sid)
       /\ \A c \in Calls(tasks', "queued") :
             Cardinality(Calls(tasks', "running")) = max_workers
      ]_searchVars

\* the calls of a first search, out at its deadline, still hold the four
\* threads after a second search has come and gone at its own deadline with
\* all its calls queued: none of those is left and none runs
C31_Witness ==
    /\ Len(searches) = 2
    /\ searches[1].timedout /\ searches[2].timedout
    /\ Cardinality(CallsOf(tasks, "running", 1)) = max_workers
    /\ TasksOf(tasks, 2) = <<>>
    /\ \A i \in 1..Len(searches[2].outs) : searches[2].outs[i].kind = "pending"

\* The page of a stored result set that a request for page p is answered with
PageOf(stored, p) ==
    IF p * RESULTS_PER_PAGE < Len(stored)
    THEN Slice(stored, p * RESULTS_PER_PAGE,
               IF (p + 1) * RESULTS_PER_PAGE < Len(stored)
               THEN (p + 1) * RESULTS_PER_PAGE ELSE Len(stored))
    ELSE <<>>

\* C32: a user's sessions change only in a step that opens a session for
\* that user, whatever the step does to the cache (expiry by the clock, the
\* purge of a store, the overwrite of the entry by a later search), and a
\* page request on a session is answered from the result set stored under
\* it, whether or not the cache still holds the entry it came from
C32_SessionOutlivesCacheEntry ==
    [][/\ \A u \in Users : ~Opened(u) => user_data'[u] = user_data[u]
       /\ (/\ reply' # reply
           /\ reply'.handler = "page"
           /\ reply'.data[1] \in DOMAIN user_data[reply'.user])
          => reply'.jobs = PageOf(user_data[reply'.user][reply'.data[1]], reply'.data[2])
      ]_vars

\* The first page of a session of one posting is delivered after the
\* originating entry has expired and a later search of the same key has
\* overwritten it with a result of two pages
C32_Witness ==
    /\ PageAsked
    /\ reply.jobs = Session
    /\ Len(Session) = 1
    /\ Len(searches) = 2
    /\ searches[1].key = searches[2].key
    /\ ticks > 0
    /\ Len(job_cache) = 1
    /\ job_cache[1].key = searches[1].key
    /\ Len(job_cache[1].value) = RESULTS_PER_PAGE + 1
    /\ job_cache[1].created > 0

\* C33: a page request is resolved against the requesting user's own
\* sessions only: when the id it names is not one of that user's sessions
\* nothing is delivered, whoever else holds a session under that id, and
\* otherwise the page delivered is the page of that user's own session
C33_OwnSessionsOnly ==
    reply.handler = "page"
    => IF reply.data[1] \in DOMAIN user_data[reply.user]
       THEN reply.jobs = PageOf(user_data[reply.user][reply.data[1]], reply.data[2])
       ELSE reply.jobs = <<>> /\ reply.nav = <<>>

\* a user names the id of a session that only the other user holds, while
\* holding a session of their own under another id, and gets nothing
C33_Witness ==
    /\ reply.handler = "page"
    /\ reply.data[1] \notin DOMAIN user_data[reply.user]
    /\ DOMAIN user_data[reply.user] # {}
    /\ \E v \in Users \ {reply.user} :
          /\ reply.data[1] \in DOMAIN user_data[v]
          /\ PageOf(user_data[v][reply.data[1]], reply.data[2]) # <<>>
    /\ reply.jobs = <<>>

\* C34: in every state reached by get_or_create_user, log_search, add_alert
\* and remove_alert calls, every users row has alerts_enabled = 1 when the
\* user has an alert with is_active = 1 and alerts_enabled = 0 when the
\* user has none
C34_FlagIffActiveAlert ==
    \A u \in DOMAIN users :
        users[u].alerts_enabled =
            IF ActiveAlerts(alerts.rows, u) = {} THEN 0 ELSE 1

\* a removal has just deactivated one of a user's two alerts: the other is
\* still active and the flag is still 1, while another user's flag is 0
C34_Witness ==
    /\ db_ret.op = "remove_alert"
    /\ db_ret.value = TRUE
    /\ \E i \in 1..Len(alerts.rows) :
          /\ alerts.rows[i].user_id = db_ret.user_id
          /\ alerts.rows[i].id = db_ret.job_url
          /\ alerts.rows[i].is_active = 0
    /\ ActiveAlerts(alerts.rows, db_ret.user_id) # {}
    /\ db_ret.user_id \in DOMAIN users
    /\ users[db_ret.user_id].alerts_enabled = 1
    /\ \E v \in DOMAIN users : users[v].alerts_enabled = 0

====
